---------------------------- MODULE Spec2Model ----------------------------
(***************************************************************************)
(* A model of gio_pyio's StreamWrapper (src/gio_pyio/streamwrapper.c): a   *)
(* Python file object over a GIO input stream, output stream or io stream. *)
(*                                                                         *)
(* The wrapper's own state is the four pointers of the StreamWrapper       *)
(* struct.  Everything else (closed flags, positions, content) lives in    *)
(* the native streams and is queried on every call.  Each method of the    *)
(* type is one action; the value or exception it leaves is kept in `res`,  *)
(* the native calls it issued in `calls`.                                  *)
(***************************************************************************)
EXTENDS Integers, Sequences, FiniteSets, TLC

\* ------------------------------------------------------------------ bounds
MaxLen == 3
MaxOut == 2
MaxBuf == 2

\* The constructor is not called again once a reference count kept here has
\* reached MaxRefs in either direction.
MaxRefs == 2

\* ------------------------------------------------------- program constants
DEFAULT_BUF_SIZE == 4096
LF == 10

NUL == 0

Byte == {LF, 97}

VARIABLES
  self,        \* the StreamWrapper struct: which of its pointers are non-NULL
  cfg,         \* what the wrapped native streams are (fixed at construction)
  in_content,  \* the bytes of the native input stream
  in_pos,      \* the native input stream's position
  in_closed,   \* g_input_stream_is_closed (self->input)
  out_content, \* the bytes of the native output stream
  out_pos,     \* the native output stream's position
  out_closed,  \* g_output_stream_is_closed (self->output)
  line_buf,    \* bytes self->data_input has read ahead of in_pos
  op,          \* the method called last
  arg,         \* its arguments
  res,         \* what it returned or raised
  calls,       \* the native calls it issued, in order
  run,         \* the sizes of the native transfers it was answered with
  hist         \* what has happened so far: closes, the close() calls that
               \* returned without error (counted up to 2); stopped, whether
               \* __next__ has raised StopIteration with no seek() since;
               \* refs, per struct field the references taken with
               \* g_object_ref / g_data_input_stream_new minus those given
               \* back with g_object_unref; built, whether a constructor
               \* call has succeeded on the instance

vars == <<self, cfg, in_content, in_pos, in_closed, out_content, out_pos,
          out_closed, line_buf, op, arg, res, calls, run, hist>>

native == <<in_pos, in_closed, out_content, out_pos, out_closed, line_buf>>

\* ------------------------------------------------------------ small helpers
Min(a, b) == IF a < b THEN a ELSE b

SeqsUpTo(S, n) == UNION {[1..k -> S] : k \in 0..n}

Drop(s, k) == SubSeq(s, k + 1, Len(s))

Take(s, k) == SubSeq(s, 1, k)

\* ------------------------------------------------------------ Python values
R0 == [kind |-> "none", exc |-> "", msg |-> "", b |-> FALSE, n |-> 0,
       data |-> <<>>, lines |-> <<>>]

Py_None == [R0 EXCEPT !.kind = "None"]

PyBool(v) == [R0 EXCEPT !.kind = "bool", !.b = v]

PyLong(v) == [R0 EXCEPT !.kind = "int", !.n = v]

PyBytes(s) == [R0 EXCEPT !.kind = "bytes", !.data = s]

PyList(l) == [R0 EXCEPT !.kind = "list", !.lines = l]

PySelf == [R0 EXCEPT !.kind = "self"]

Raise(e, m) == [R0 EXCEPT !.kind = "exc", !.exc = e, !.msg = m]

\* The process died or its memory was corrupted (undefined behaviour in C).
Crash == [R0 EXCEPT !.kind = "crash"]

\* Arguments of a call: ok is FALSE when they do not parse.
NoArgs == [ok |-> TRUE, given |-> FALSE, n |-> 0, b |-> <<>>, items |-> <<>>,
           ro |-> FALSE]

BadArgs == [NoArgs EXCEPT !.ok = FALSE, !.given = TRUE]

IntArg(v) == [NoArgs EXCEPT !.given = TRUE, !.n = v]

BytesArg(s) == [NoArgs EXCEPT !.given = TRUE, !.b = s]

\* -------------------------------------------------------------- construction
\* StreamWrapper_init on a fresh instance, by the kind of GObject passed.
StreamWrapper_init(kind) ==
  [input      |-> kind \in {"input", "io"},
   data_input |-> kind \in {"input", "io"},
   output     |-> kind \in {"output", "io"},
   io         |-> kind = "io"]

\* The struct as PyType_GenericNew leaves it: every pointer NULL.
tp_new == [input |-> FALSE, data_input |-> FALSE, output |-> FALSE,
           io |-> FALSE]

NoRefs == [input |-> 0, data_input |-> 0, output |-> 0, io |-> 0]

\* The pointers StreamWrapper_init assigns by the kind of its argument; a
\* pointer it does not assign keeps the value it had in s.
classified(s, kind) ==
  CASE kind = "input"  -> [s EXCEPT !.input = TRUE]
    [] kind = "output" -> [s EXCEPT !.output = TRUE]
    [] kind = "io"     -> [s EXCEPT !.io = TRUE, !.input = TRUE,
                                    !.output = TRUE]
    [] OTHER           -> s

\* The struct after StreamWrapper_init ran on struct s.  scanner_ok is
\* whether g_data_input_stream_new returned an object.
init_self(s, kind, scanner_ok) ==
  LET a == classified(s, kind)
  IN  IF kind \notin {"input", "output", "io"} THEN s
      ELSE IF a.input THEN [a EXCEPT !.data_input = scanner_ok]
      ELSE a

\* The references held after StreamWrapper_init ran on struct s holding r.
init_refs(r, s, kind, scanner_ok) ==
  LET a == classified(s, kind)
      t == CASE kind = "input"  -> [r EXCEPT !.input = @ + 1]
             [] kind = "output" -> [r EXCEPT !.output = @ + 1]
             [] kind = "io"     -> [r EXCEPT !.io = @ + 1, !.input = @ + 1,
                                             !.output = @ + 1]
             [] OTHER           -> r
  IN  IF kind \notin {"input", "output", "io"} THEN r
      ELSE IF ~a.input THEN t
      ELSE IF scanner_ok THEN [t EXCEPT !.data_input = @ + 1]
      ELSE [t EXCEPT !.input = @ - 1,
                     !.output = IF a.output THEN @ - 1 ELSE @,
                     !.io = IF a.io THEN @ - 1 ELSE @]

\* What the constructor call raises, None when it returns 0 with no error.
init_result(s, kind, scanner_ok) ==
  IF kind \notin {"input", "output", "io"}
  THEN Raise("TypeError", "expected a GIO stream object")
  ELSE IF classified(s, kind).input /\ ~scanner_ok
  THEN Raise("RuntimeError", "Failed to create GDataInputStream")
  ELSE Py_None

\* ------------------------------------------------------ capability predicates
is_closed ==
  LET u1 == IF self.input THEN ~in_closed ELSE TRUE
      u2 == IF self.output THEN u1 /\ ~out_closed ELSE u1
  IN  ~u2

err_closed == Raise("UnsupportedOperation", "I/O operation on closed file")

err_unsupported(method) == Raise("UnsupportedOperation", method)

\* is_readable without its test of self->input.
is_readable_always == TRUE

is_readable == self.input

err_not_readable == Raise("UnsupportedOperation", "Stream is not readable")

is_writable == self.output

err_not_writable == Raise("UnsupportedOperation", "Stream is not writable")

\* An action that touches no native stream.
Ret(name, a, r) ==
  /\ run' = <<>>
  /\ op' = name
  /\ arg' = a
  /\ res' = r
  /\ calls' = <<>>
  /\ UNCHANGED <<self, cfg, in_content, native>>

\* ------------------------------------------------------------------ closed
StreamWrapper_get_closed ==
  /\ op = "idle"
  /\ UNCHANGED hist
  /\ Ret("closed", NoArgs, PyBool(is_closed))

\* ------------------------------------------------------------------- close
\* close_wrapper: the native close calls, each of which may fail.  A GIO
\* stream is marked closed by g_*_stream_close whether or not it fails.
close_wrapper(name, io_ok, in_ok, out_ok) ==
  /\ run' = <<>>
  /\ op' = name
  /\ arg' = NoArgs
  /\ UNCHANGED <<self, cfg, in_content, in_pos, out_content, out_pos, line_buf>>
  /\ IF self.io
     THEN /\ calls' = <<"g_io_stream_close">>
          /\ in_closed' = TRUE
          /\ out_closed' = TRUE
          /\ res' = IF io_ok THEN Py_None ELSE Raise("IOError", "close")
     ELSE LET c1 == IF self.input THEN <<"g_input_stream_close">> ELSE <<>>
              go == ~self.input \/ in_ok
              c2 == IF go /\ self.output
                    THEN <<"g_output_stream_close">> ELSE <<>>
          IN  /\ calls' = c1 \o c2
              /\ in_closed' = (IF self.input THEN TRUE ELSE in_closed)
              /\ out_closed' = (IF go /\ self.output THEN TRUE ELSE out_closed)
              /\ res' = IF go /\ (~self.output \/ out_ok)
                        THEN Py_None ELSE Raise("IOError", "close")

\* close() without its early return on a closed wrapper.
close_impl_unguarded ==
  /\ op = "idle"
  /\ \E io_ok, in_ok, out_ok \in BOOLEAN :
       close_wrapper("close", io_ok, in_ok, out_ok)
  /\ hist' = [hist EXCEPT !.closes = IF res' = Py_None /\ @ < 2 THEN @ + 1
                                     ELSE @]

StreamWrapper_close_impl ==
  /\ op = "idle"
  /\ IF is_closed
     THEN Ret("close", NoArgs, Py_None)
     ELSE \E io_ok, in_ok, out_ok \in BOOLEAN :
            close_wrapper("close", io_ok, in_ok, out_ok)
  /\ hist' = [hist EXCEPT !.closes = IF res' = Py_None /\ @ < 2 THEN @ + 1
                                     ELSE @]

\* ------------------------------------------------- readable / writable
StreamWrapper_readable_impl ==
  /\ op = "idle"
  /\ UNCHANGED hist
  /\ Ret("readable", NoArgs, PyBool(is_readable))

StreamWrapper_writable_impl ==
  /\ op = "idle"
  /\ UNCHANGED hist
  /\ Ret("writable", NoArgs, PyBool(is_writable))

\* --------------------------------------------------------- context manager
StreamWrapper_enter_impl ==
  /\ op = "idle"
  /\ UNCHANGED hist
  /\ Ret("__enter__", NoArgs, IF is_closed THEN err_closed ELSE PySelf)

\* __exit__ that returns None without closing anything.
exit_without_close ==
  /\ op = "idle"
  /\ UNCHANGED hist
  /\ Ret("__exit__", NoArgs, Py_None)

StreamWrapper_exit_impl ==
  /\ op = "idle"
  /\ UNCHANGED hist
  /\ IF is_closed
     THEN Ret("__exit__", NoArgs, Py_None)
     ELSE \E io_ok, in_ok, out_ok \in BOOLEAN :
            close_wrapper("__exit__", io_ok, in_ok, out_ok)

StreamWrapper_iter ==
  /\ op = "idle"
  /\ UNCHANGED hist
  /\ Ret("__iter__", NoArgs, IF is_closed THEN err_closed ELSE PySelf)

\* ------------------------------------------------------------------- flush
\* g_output_stream_flush: "ok", "fail" (error set) or "fail_silent" (FALSE
\* with no error set: the stream does not implement flush).
FlushOutcomes == {"ok", "fail", "fail_silent"}

\* The flush call with the answer it got.
FlushCall(o) == "g_output_stream_flush=" \o o

\* A flush that raises on every native failure, diagnostic or not.
flush_impl_strict ==
  /\ op = "idle"
  /\ UNCHANGED hist
  /\ IF is_closed THEN Ret("flush", NoArgs, err_closed)
     ELSE IF ~is_writable THEN Ret("flush", NoArgs, Py_None)
     ELSE \E o \in FlushOutcomes :
            /\ run' = <<>>
            /\ op' = "flush"
            /\ arg' = NoArgs
            /\ calls' = <<FlushCall(o)>>
            /\ res' = IF o # "ok" THEN Raise("IOError", "flush") ELSE Py_None
            /\ UNCHANGED <<self, cfg, in_content, native>>

StreamWrapper_flush_impl ==
  /\ op = "idle"
  /\ UNCHANGED hist
  /\ IF is_closed THEN Ret("flush", NoArgs, err_closed)
     ELSE IF ~is_writable THEN Ret("flush", NoArgs, Py_None)
     ELSE \E o \in FlushOutcomes :
            /\ run' = <<>>
            /\ op' = "flush"
            /\ arg' = NoArgs
            /\ calls' = <<FlushCall(o)>>
            /\ res' = IF o = "fail" THEN Raise("IOError", "flush") ELSE Py_None
            /\ UNCHANGED <<self, cfg, in_content, native>>

\* ---------------------------------------------------------------- seekable
\* cfg.in_seek / cfg.out_seek: "no" (the stream is not a GSeekable), "cant"
\* (a GSeekable whose can_seek is FALSE) or "yes".
is_seekable ==
  LET u1 == IF self.input THEN ~(cfg.in_seek = "yes") ELSE TRUE
      u2 == IF self.output THEN u1 /\ ~(cfg.out_seek = "yes") ELSE u1
  IN  ~u2

err_not_seekable ==
  Raise("UnsupportedOperation", "Underlying stream is not seekable")

StreamWrapper_seekable_impl ==
  /\ op = "idle"
  /\ UNCHANGED hist
  /\ Ret("seekable", NoArgs, IF is_closed THEN err_closed ELSE PyBool(is_seekable))

\* g_seekable_tell on one side: a stream that is no GSeekable fails GLib's
\* argument check, which answers 0.
SideTell(seek, pos) == IF seek = "no" THEN 0 ELSE pos

\* tell (): the output side's answer overwrites the input side's.
tell(ipos, opos) ==
  IF self.output THEN SideTell(cfg.out_seek, opos)
  ELSE SideTell(cfg.in_seek, ipos)

TellCalls ==
  (IF self.input THEN <<"g_seekable_tell(input)">> ELSE <<>>)
  \o (IF self.output THEN <<"g_seekable_tell(output)">> ELSE <<>>)

StreamWrapper_tell_impl ==
  /\ op = "idle"
  /\ UNCHANGED hist
  /\ IF is_closed THEN Ret("tell", NoArgs, err_closed)
     ELSE IF ~is_seekable THEN Ret("tell", NoArgs, err_not_seekable)
     ELSE /\ op' = "tell"
          /\ arg' = NoArgs
          /\ run' = <<>>
          /\ calls' = TellCalls
          /\ res' = PyLong(tell(in_pos, out_pos))
          /\ UNCHANGED <<self, cfg, in_content, native>>

\* -------------------------------------------------------------------- seek
SEEK_SET == 0
SEEK_CUR == 1
SEEK_END == 2

\* g_seekable_seek on a side that can seek: the target, or -1 when the
\* native stream refuses it.
SeekTarget(pos, len, offset, whence) ==
  LET t == CASE whence = SEEK_SET -> offset
             [] whence = SEEK_CUR -> pos + offset
             [] OTHER -> len + offset
  IN  IF t >= 0 /\ t <= len THEN t ELSE -1

\* What g_seekable_seek does on one side: "ok", "error" (FALSE with the
\* error set) or "crash" (FALSE with no error set, which the caller
\* dereferences).
SideSeek(seek, pos, len, offset, whence) ==
  IF seek = "no" THEN "crash"
  ELSE IF seek = "cant" THEN "error"
  ELSE IF SeekTarget(pos, len, offset, whence) < 0 THEN "error"
  ELSE "ok"

Whences == {SEEK_SET, SEEK_CUR, SEEK_END, 3}

SeekArg(offset, whence) == [IntArg(offset) EXCEPT !.b = <<whence>>]

StreamWrapper_seek_impl ==
  /\ op = "idle"
  /\ hist' = [hist EXCEPT !.stopped = FALSE]
  /\ \E a \in {BadArgs} \cup {SeekArg(o, w) : o \in -1..MaxLen, w \in Whences} :
       IF ~a.ok THEN Ret("seek", a, Raise("TypeError", "argument"))
       ELSE IF is_closed THEN Ret("seek", a, err_closed)
       ELSE IF ~is_seekable THEN Ret("seek", a, err_not_seekable)
       ELSE IF a.b[1] \notin {SEEK_SET, SEEK_CUR, SEEK_END}
       THEN Ret("seek", a, Raise("ValueError", "Invalid whence value"))
       ELSE
         LET s1 == IF is_readable
                   THEN SideSeek(cfg.in_seek, in_pos, Len(in_content), a.n, a.b[1])
                   ELSE "skip"
             go == s1 \in {"ok", "skip"}
             s2 == IF go /\ is_writable
                   THEN SideSeek(cfg.out_seek, out_pos, Len(out_content), a.n, a.b[1])
                   ELSE "skip"
             ip == IF s1 = "ok"
                   THEN SeekTarget(in_pos, Len(in_content), a.n, a.b[1]) ELSE in_pos
             po == IF s2 = "ok"
                   THEN SeekTarget(out_pos, Len(out_content), a.n, a.b[1]) ELSE out_pos
             done == go /\ s2 \in {"ok", "skip"}
         IN  /\ op' = "seek"
             /\ arg' = a
             /\ run' = <<>>
             /\ in_pos' = ip
             /\ out_pos' = po
             /\ calls' = (IF is_readable THEN <<"g_seekable_seek(input)">> ELSE <<>>)
                         \o (IF go /\ is_writable
                             THEN <<"g_seekable_seek(output)">> ELSE <<>>)
                         \o (IF done THEN TellCalls ELSE <<>>)
             /\ res' = IF "crash" \in {s1, s2} THEN Crash
                       ELSE IF "error" \in {s1, s2} THEN Raise("IOError", "seek")
                       ELSE PyLong(tell(ip, po))
             /\ UNCHANGED <<self, cfg, in_content, in_closed, out_content,
                            out_closed, line_buf>>

\* ---------------------------------------------------------------- truncate
\* A g_seekable_truncate that leaves the content as it is.
Truncated_not(s, size) == s

\* g_seekable_truncate: the content cut or zero-filled to `size`.
Truncated(s, size) ==
  [i \in 1..size |-> IF i <= Len(s) THEN s[i] ELSE 0]

\* g_seekable_can_truncate (G_SEEKABLE (self->output)); a NULL or
\* non-seekable output fails GLib's argument check, which answers FALSE.
can_truncate == self.output /\ cfg.out_seek # "no" /\ cfg.out_trunc

StreamWrapper_truncate_impl ==
  /\ op = "idle"
  /\ UNCHANGED hist
  /\ \E a \in {BadArgs, NoArgs} \cup {IntArg(n) : n \in 0..MaxOut},
        ok \in BOOLEAN :
       IF ~a.ok THEN Ret("truncate", a, Raise("TypeError", "argument"))
       ELSE IF is_closed THEN Ret("truncate", a, err_closed)
       ELSE IF ~is_seekable THEN Ret("truncate", a, err_not_seekable)
       ELSE IF ~can_truncate
       THEN /\ op' = "truncate"
            /\ arg' = a
            /\ run' = <<>>
            /\ calls' = <<"g_seekable_can_truncate(output)">>
            /\ res' = err_unsupported("truncate")
            /\ UNCHANGED <<self, cfg, in_content, native>>
       ELSE
         LET size == IF a.given THEN a.n ELSE SideTell(cfg.out_seek, out_pos)
         IN  /\ op' = "truncate"
             /\ arg' = a
             /\ run' = <<>>
             /\ calls' = <<"g_seekable_can_truncate(output)">>
                         \o (IF a.given THEN <<>> ELSE <<"g_seekable_tell(output)">>)
                         \o <<"g_seekable_truncate(output)">>
             /\ out_content' = IF ok THEN Truncated(out_content, size)
                               ELSE out_content
             /\ res' = IF ok THEN PyLong(size)
                       ELSE Raise("IOError", "Failed to truncate")
             /\ UNCHANGED <<self, cfg, in_content, in_pos, in_closed, out_pos,
                            out_closed, line_buf>>

\* ------------------------------------------------------------ fileno, isatty
is_fd_based ==
  LET n1 == IF self.input THEN cfg.in_fd ELSE TRUE
      n2 == IF self.output THEN n1 /\ cfg.out_fd ELSE n1
  IN  ~n2

InFd == 3
OutFd == 4

\* g_file_descriptor_based_get_fd on one side: a stream that is not
\* descriptor based fails GLib's argument check, which answers 0.
SideFd(based, fd) == IF based THEN fd ELSE 0

get_fd ==
  IF self.output THEN SideFd(cfg.out_fd, OutFd) ELSE SideFd(cfg.in_fd, InFd)

GetFdCalls ==
  (IF self.input THEN <<"g_file_descriptor_based_get_fd(input)">> ELSE <<>>)
  \o (IF self.output THEN <<"g_file_descriptor_based_get_fd(output)">> ELSE <<>>)

StreamWrapper_fileno_impl ==
  /\ op = "idle"
  /\ UNCHANGED hist
  /\ IF is_closed THEN Ret("fileno", NoArgs, err_closed)
     ELSE IF ~is_fd_based THEN Ret("fileno", NoArgs, err_unsupported("fileno"))
     ELSE /\ op' = "fileno"
          /\ arg' = NoArgs
          /\ run' = <<>>
          /\ calls' = GetFdCalls
          /\ res' = PyLong(get_fd)
          /\ UNCHANGED <<self, cfg, in_content, native>>

StreamWrapper_isatty_impl ==
  /\ op = "idle"
  /\ UNCHANGED hist
  /\ IF is_closed THEN Ret("isatty", NoArgs, err_closed)
     ELSE IF ~is_fd_based THEN Ret("isatty", NoArgs, PyBool(FALSE))
     ELSE /\ op' = "isatty"
          /\ arg' = NoArgs
          /\ run' = <<>>
          /\ calls' = GetFdCalls \o <<"isatty">>
          /\ res' = PyBool(cfg.tty)
          /\ UNCHANGED <<self, cfg, in_content, native>>

\* ------------------------------------------------------------ native reads
\* The ways the native layer can answer a run of g_input_stream_read calls
\* of at most `count` bytes each over `rem` remaining bytes: the sizes of the
\* non-empty reads, in order (the run ends with a read of 0 at EOF).
RECURSIVE Runs(_, _)
Runs(rem, count) ==
  IF rem = 0 \/ count = 0 THEN {<<>>}
  ELSE UNION {{<<k>> \o r : r \in Runs(rem - k, count)} : k \in 1..Min(rem, count)}

\* A run cut short by a native error after its first j reads.
ErrRuns(rem, count) ==
  UNION {{Take(r, j) : j \in 0..Len(r)} : r \in Runs(rem, count)}

RECURSIVE Sum(_)
Sum(r) == IF r = <<>> THEN 0 ELSE r[1] + Sum(Tail(r))

\* The chunks a run cuts `data` into.
RECURSIVE SplitBy(_, _)
SplitBy(data, r) ==
  IF r = <<>> THEN <<>>
  ELSE <<Take(data, r[1])>> \o SplitBy(Drop(data, r[1]), Tail(r))

RECURSIVE Concat(_)
Concat(ss) == IF ss = <<>> THEN <<>> ELSE ss[1] \o Concat(Tail(ss))

Rest == Drop(in_content, in_pos)

\* What a byte of memory that was never written may hold.
Garbage == Byte \cup {0}

\* -------------------------------------------------------------------- read
InBufSize ==
  IF cfg.in_bufsize > 0 THEN cfg.in_bufsize ELSE DEFAULT_BUF_SIZE

\* The copy loop of read_until_eof: chunk i is copied to dest + offset as
\* bufsize bytes, the last chunk as total_size - offset bytes.  Bytes read
\* past the end of a chunk come from `fill`.  over: a copy ran past the end of
\* dest; neg: the last chunk's size was negative.
RECURSIVE CopyChunks(_, _, _, _, _, _, _)
CopyChunks(i, offset, dest, chunks, bufsize, total, fill) ==
  IF i > Len(chunks) THEN [dest |-> dest, over |-> FALSE, neg |-> FALSE]
  ELSE
    LET chunk_size == IF i = Len(chunks) THEN total - offset ELSE bufsize
        copied == [p \in 1..total |->
                     IF p > offset /\ p <= offset + chunk_size
                     THEN IF p - offset <= Len(chunks[i])
                          THEN chunks[i][p - offset] ELSE fill[p]
                     ELSE dest[p]]
    IN  IF chunk_size < 0
        THEN [dest |-> dest, over |-> FALSE, neg |-> TRUE]
        ELSE LET r == CopyChunks(i + 1, offset + chunk_size, copied, chunks,
                                 bufsize, total, fill)
             IN  [r EXCEPT !.over = r.over \/ offset + chunk_size > total]

\* Whether the copy loop reads or writes out of bounds for these chunks.
CopyDefined(chunks, bufsize) ==
  \A i \in 1..Len(chunks) - 1 : Len(chunks[i]) = bufsize

\* read_until_eof over a run r of native reads, with a native error after
\* them when err.
read_until_eof(r, err, fill, dies) ==
  LET chunks == SplitBy(Rest, r)
      total == Sum(r)
      c == CopyChunks(1, 0, fill, chunks, InBufSize, total, fill)
  IN  IF err THEN Raise("IOError", "Read error")
      ELSE IF c.neg \/ (c.over /\ dies) THEN Crash
      ELSE PyBytes(c.dest)

ReadUntilEof(name, a) ==
  \E err \in BOOLEAN :
    \E r \in (IF err THEN ErrRuns(Len(Rest), InBufSize)
              ELSE Runs(Len(Rest), InBufSize)) :
      \E dies \in BOOLEAN :
        \E fill \in (IF ~err /\ ~CopyDefined(SplitBy(Rest, r), InBufSize)
                     THEN [1..Sum(r) -> Garbage]
                     ELSE {Take(Rest, Sum(r))}) :
          /\ op' = name
          /\ arg' = a
          /\ run' = r
          /\ calls' = [i \in 1..Len(r) + 1 |-> "g_input_stream_read"]
          /\ res' = read_until_eof(r, err, fill, dies)
          /\ in_pos' = in_pos + Sum(r)
          /\ UNCHANGED <<self, cfg, in_content, in_closed, out_content,
                         out_pos, out_closed, line_buf>>

\* One g_input_stream_read in the place of g_input_stream_read_all: the call
\* returns what the first native read gave.
ReadOnce(name, a, count, wrap) ==
  \E k \in (IF Len(Rest) = 0 THEN {0} ELSE 1..Min(count, Len(Rest))) :
    /\ op' = name
    /\ arg' = a
    /\ run' = IF k = 0 THEN <<>> ELSE <<k>>
    /\ calls' = <<"g_input_stream_read">>
    /\ res' = IF wrap = "bytes" THEN PyBytes(Take(Rest, k))
              ELSE [PyLong(k) EXCEPT !.data = Take(Rest, k)]
    /\ in_pos' = in_pos + k
    /\ UNCHANGED <<self, cfg, in_content, in_closed, out_content,
                   out_pos, out_closed, line_buf>>

\* g_input_stream_read_all (self->input, buffer, count, &n): the native reads
\* of the run r are gathered until count bytes, EOF or an error.
ReadAll(name, a, count, wrap) ==
  \E err \in BOOLEAN :
    \E r \in (IF err THEN ErrRuns(Min(count, Len(Rest)), count)
              ELSE Runs(Min(count, Len(Rest)), count)) :
      /\ op' = name
      /\ arg' = a
      /\ run' = r
      /\ calls' = <<"g_input_stream_read_all">>
      /\ res' = IF err THEN Raise("IOError", "Read error")
                ELSE IF wrap = "bytes" THEN PyBytes(Concat(SplitBy(Rest, r)))
                ELSE [PyLong(Sum(r)) EXCEPT !.data = Concat(SplitBy(Rest, r))]
      /\ in_pos' = in_pos + Sum(r)
      /\ UNCHANGED <<self, cfg, in_content, in_closed, out_content,
                     out_pos, out_closed, line_buf>>

ReadSizes == -1..MaxLen + 1

StreamWrapper_read_impl ==
  /\ op = "idle"
  /\ UNCHANGED hist
  /\ \E a \in {BadArgs, NoArgs} \cup {IntArg(n) : n \in ReadSizes} :
       LET size == IF a.given THEN a.n ELSE -1
       IN  IF ~a.ok THEN Ret("read", a, Raise("TypeError", "argument"))
           ELSE IF is_closed THEN Ret("read", a, err_closed)
           ELSE IF ~is_readable THEN Ret("read", a, err_not_readable)
           ELSE IF size = 0 THEN Ret("read", a, PyBytes(<<>>))
           ELSE IF ~(size > 0) THEN ReadUntilEof("read", a)
           ELSE ReadAll("read", a, size, "bytes")

StreamWrapper_readall_impl ==
  /\ op = "idle"
  /\ UNCHANGED hist
  /\ IF is_closed THEN Ret("readall", NoArgs, err_closed)
     ELSE IF ~is_readable THEN Ret("readall", NoArgs, err_not_readable)
     ELSE ReadUntilEof("readall", NoArgs)

\* readinto (b): a.n is the length of b, a.ro says b is not writable.  The
\* bytes put into b are kept beside the count returned.
StreamWrapper_readinto_impl ==
  /\ op = "idle"
  /\ UNCHANGED hist
  /\ \E a \in {BadArgs} \cup {[IntArg(n) EXCEPT !.ro = w] :
                                 n \in 0..MaxLen + 1, w \in BOOLEAN} :
       IF ~a.ok THEN Ret("readinto", a, Raise("TypeError", "argument"))
       ELSE IF is_closed THEN Ret("readinto", a, err_closed)
       ELSE IF ~is_readable THEN Ret("readinto", a, err_not_readable)
       ELSE IF a.ro THEN Ret("readinto", a, Raise("BufferError", "read-only"))
       ELSE ReadAll("readinto", a, a.n, "int")

\* ------------------------------------------------------------- line reads
HasLF(s) == \E i \in 1..Len(s) : s[i] = LF

FirstLF(s) == CHOOSE i \in 1..Len(s) : s[i] = LF /\ \A j \in 1..i - 1 : s[j] # LF

\* g_data_input_stream_read_line (self->data_input, &length, NULL, &error)
\* with `buf` buffered and the native input at `pos`: every way it can end.
\* While the buffer holds no newline it is filled by native reads of any size;
\* the line up to the first newline is taken out of the buffer, the newline
\* dropped.  At EOF what is buffered is the line; when nothing is, the answer
\* is NULL (null) with no error.  A native read may fail (err).
read_line(buf, pos) ==
  LET rest == Drop(in_content, pos)
      one(l, b, q) == [null |-> FALSE, err |-> FALSE, line |-> l, buf |-> b,
                       pos |-> q]
      failed == {[null |-> TRUE, err |-> TRUE, line |-> <<>>,
                  buf |-> buf \o Take(rest, m), pos |-> pos + m] :
                   m \in 0..(IF HasLF(rest) THEN FirstLF(rest) - 1 ELSE Len(rest))}
      all ==
        IF HasLF(buf)
        THEN {one(Take(buf, FirstLF(buf) - 1), Drop(buf, FirstLF(buf)), pos)}
        ELSE failed \cup
             (IF HasLF(rest)
              THEN {one(buf \o Take(rest, FirstLF(rest) - 1),
                        SubSeq(rest, FirstLF(rest) + 1, m), pos + m) :
                      m \in FirstLF(rest)..Len(rest)}
              ELSE IF buf \o rest = <<>>
              THEN {[null |-> TRUE, err |-> FALSE, line |-> <<>>,
                     buf |-> <<>>, pos |-> pos]}
              ELSE {one(buf \o rest, <<>>, Len(in_content))})
  IN  \* the model keeps at most MaxLen bytes buffered
      {o \in all : Len(o.buf) <= MaxLen}

\* A line read that leaves result r.
LineRet(name, a, r, o, n) ==
  /\ op' = name
  /\ arg' = a
  /\ run' = <<>>
  /\ calls' = [i \in 1..n |-> "g_data_input_stream_read_line"]
  /\ res' = r
  /\ line_buf' = o.buf
  /\ in_pos' = o.pos
  /\ UNCHANGED <<self, cfg, in_content, in_closed, out_content, out_pos,
                 out_closed>>

LineSizes == -1..MaxLen

\* readline: what it makes of one answer of the line scanner.
readline_result(o, size) ==
  IF o.null
  THEN IF o.err THEN Raise("IOError", "read_line") ELSE PyBytes(<<>>)
  ELSE LET length == IF size > 0 /\ Len(o.line) > size THEN size
                     ELSE Len(o.line)
       IN  PyBytes(Take(o.line, length) \o <<LF>>)

StreamWrapper_readline_impl ==
  /\ op = "idle"
  /\ UNCHANGED hist
  /\ \E a \in {BadArgs, NoArgs} \cup {IntArg(n) : n \in LineSizes} :
       LET size == IF a.given THEN a.n ELSE -1
       IN  IF ~a.ok THEN Ret("readline", a, Raise("TypeError", "argument"))
           ELSE IF is_closed THEN Ret("readline", a, err_closed)
           ELSE IF ~is_readable THEN Ret("readline", a, err_not_readable)
           ELSE IF size = 0 THEN Ret("readline", a, PyBytes(<<>>))
           ELSE \E o \in read_line(line_buf, in_pos) :
                  LineRet("readline", a, readline_result(o, size), o, 1)

\* __next__: what it makes of one answer of the line scanner.
iternext_result(o) ==
  IF o.null /\ o.err THEN Raise("IOError", "read_line")
  ELSE IF Len(o.line) = 0 THEN Raise("StopIteration", "")
  ELSE PyBytes(o.line \o <<LF>>)

StreamWrapper_iternext ==
  /\ op = "idle"
  /\ IF is_closed THEN Ret("__next__", NoArgs, err_closed)
     ELSE IF ~is_readable THEN Ret("__next__", NoArgs, err_not_readable)
     ELSE \E o \in read_line(line_buf, in_pos) :
            LineRet("__next__", NoArgs, iternext_result(o), o, 1)
  /\ hist' = [hist EXCEPT !.stopped = @ \/ res' = Raise("StopIteration", "")]

\* strlen: a C string ends at its first NUL.
Strlen(s) ==
  IF \E i \in 1..Len(s) : s[i] = NUL
  THEN (CHOOSE i \in 1..Len(s) : s[i] = NUL /\ \A j \in 1..i - 1 : s[j] # NUL) - 1
  ELSE Len(s)

\* The loop of readlines: every way it can end, with the list built, the
\* scanner's state and the number of line reads.
RECURSIVE readlines_loop(_, _, _, _, _, _)
readlines_loop(buf, pos, total_bytes, lines_array, hint, n) ==
  UNION {
    IF o.err
    THEN {[res |-> Raise("IOError", "read_line"), o |-> o, n |-> n + 1]}
    ELSE IF o.null
    THEN {[res |-> PyList([i \in 1..Len(lines_array) |->
                             Take(lines_array[i], Strlen(lines_array[i]))]),
           o |-> o, n |-> n + 1]}
    ELSE LET line == o.line \o <<LF>>
             total == total_bytes + Len(line)
             arr == Append(lines_array, line)
         IN  IF hint > 0 /\ total >= hint
             THEN {[res |-> PyList([i \in 1..Len(arr) |->
                                      Take(arr[i], Strlen(arr[i]))]),
                    o |-> o, n |-> n + 1]}
             ELSE readlines_loop(o.buf, o.pos, total, arr, hint, n + 1)
    : o \in read_line(buf, pos)}

StreamWrapper_readlines_impl ==
  /\ op = "idle"
  /\ UNCHANGED hist
  /\ \E a \in {BadArgs, NoArgs} \cup {IntArg(n) : n \in LineSizes} :
       LET hint == IF a.given THEN a.n ELSE 0
       IN  IF ~a.ok THEN Ret("readlines", a, Raise("TypeError", "argument"))
           ELSE IF is_closed THEN Ret("readlines", a, err_closed)
           ELSE IF ~is_readable THEN Ret("readlines", a, err_not_readable)
           ELSE \E x \in readlines_loop(line_buf, in_pos, 0, <<>>, hint, 0) :
                  LineRet("readlines", a, x.res, x.o, x.n)

\* ------------------------------------------------------------------- write
\* The native output after `data` is written at position pos.
Written(content, pos, data) ==
  [i \in 1..(IF pos + Len(data) > Len(content) THEN pos + Len(data)
             ELSE Len(content)) |->
     IF i > pos /\ i <= pos + Len(data) THEN data[i - pos]
     ELSE IF i <= Len(content) THEN content[i] ELSE 0]

\* How much more the model lets the native output grow.
Room == IF out_pos < MaxOut THEN MaxOut - out_pos ELSE 0

\* One g_output_stream_write in the place of g_output_stream_write_all: the
\* call returns what the first native write took.
WriteOnce(name, a, data) ==
  \E k \in 1..Len(data) :
    /\ op' = name
    /\ arg' = a
    /\ run' = <<k>>
    /\ calls' = <<"g_output_stream_write">>
    /\ res' = PyLong(k)
    /\ out_content' = Written(out_content, out_pos, Take(data, k))
    /\ out_pos' = out_pos + k
    /\ UNCHANGED <<self, cfg, in_content, in_pos, in_closed, out_closed,
                   line_buf>>

\* g_output_stream_write_all of `data`: the partial native writes of run r,
\* with a native error after them when err.
WriteAll(name, a, data) ==
  \E err \in BOOLEAN :
    \E r \in (IF err THEN ErrRuns(Len(data), Len(data)) \ Runs(Len(data), Len(data))
              ELSE Runs(Len(data), Len(data))) :
      /\ op' = name
      /\ arg' = a
      /\ run' = r
      /\ calls' = <<"g_output_stream_write_all">>
      /\ res' = IF err THEN Raise("IOError", "Write failed")
                ELSE PyLong(Sum(r))
      /\ out_content' = Written(out_content, out_pos, Take(data, Sum(r)))
      /\ out_pos' = out_pos + Sum(r)
      /\ UNCHANGED <<self, cfg, in_content, in_pos, in_closed, out_closed,
                     line_buf>>

StreamWrapper_write_impl ==
  /\ op = "idle"
  /\ UNCHANGED hist
  /\ \E a \in {BadArgs} \cup {BytesArg(d) : d \in SeqsUpTo(Byte, Room)} :
       IF ~a.ok THEN Ret("write", a, Raise("TypeError", "argument"))
       ELSE IF is_closed THEN Ret("write", a, err_closed)
       ELSE IF ~is_writable THEN Ret("write", a, err_not_writable)
       ELSE IF Len(a.b) = 0 THEN Ret("write", a, PyLong(0))
       ELSE WriteAll("write", a, a.b)

\* -------------------------------------------------------------- writelines
OutBufSize ==
  IF cfg.out_bufsize > 0 THEN cfg.out_bufsize ELSE DEFAULT_BUF_SIZE

\* A writelines that hands each item to the native stream with a line
\* delimiter after it.
writelines_with_delimiters(items, bad, i, data, buffer, bufsize, flushed) ==
  [flushed |-> [k \in 1..Len(items) |-> items[k] \o <<LF>>], exc |-> ""]

\* The loop of writelines over items i.., `data` what is left of the current
\* item, `buffer` the bytes in the local buffer: the buffers handed to
\* g_output_stream_write_all, in order, and the exception the loop ends with
\* (bad is the index of an item that is no bytes object, 0 for none).
RECURSIVE writelines_loop(_, _, _, _, _, _, _)
writelines_loop(items, bad, i, data, buffer, bufsize, flushed) ==
  IF data # <<>>
  THEN LET space_left == bufsize - Len(buffer)
       IN  IF Len(data) <= space_left
           THEN writelines_loop(items, bad, i, <<>>, buffer \o data, bufsize,
                                flushed)
           ELSE writelines_loop(items, bad, i, Drop(data, space_left), <<>>,
                                bufsize,
                                Append(flushed, buffer \o Take(data, space_left)))
  ELSE IF i + 1 > Len(items)
  THEN [flushed |-> IF Len(buffer) > 0 THEN Append(flushed, buffer)
                    ELSE flushed,
        exc |-> ""]
  ELSE IF i + 1 = bad
  THEN [flushed |-> flushed, exc |-> "TypeError"]
  ELSE writelines_loop(items, bad, i + 1, items[i + 1], buffer, bufsize,
                       flushed)

\* The lists of items the model passes to writelines: at most two items,
\* together no longer than the room left.
ItemLists ==
  {<<>>} \cup {<<d>> : d \in SeqsUpTo(Byte, Room)}
  \cup {<<d, e>> : d \in SeqsUpTo(Byte, Room),
                   e \in SeqsUpTo(Byte, Room - 0)}

ItemsArg(items, bad) == [NoArgs EXCEPT !.given = TRUE, !.items = items, !.n = bad]

StreamWrapper_writelines_impl ==
  /\ op = "idle"
  /\ UNCHANGED hist
  /\ \E a \in {BadArgs} \cup
              {ItemsArg(l, k) : l \in {x \in ItemLists : Len(Concat(x)) <= Room},
                                k \in 0..2} :
       IF ~a.ok THEN Ret("writelines", a, Raise("TypeError", "Argument must be iterable"))
       ELSE IF is_closed THEN Ret("writelines", a, err_closed)
       ELSE IF ~is_writable THEN Ret("writelines", a, err_not_writable)
       ELSE
         LET w == writelines_loop(a.items, a.n, 0, <<>>, <<>>, OutBufSize, <<>>)
         IN  \E fail \in 0..Len(w.flushed) :
               LET done == IF fail = 0 THEN w.flushed ELSE Take(w.flushed, fail - 1)
                   data == Concat(done)
               IN  /\ op' = "writelines"
                   /\ arg' = a
                   /\ run' = [i \in 1..Len(w.flushed) |-> Len(w.flushed[i])]
                   /\ calls' = [i \in 1..(IF fail = 0 THEN Len(w.flushed) ELSE fail)
                                  |-> "g_output_stream_write_all"]
                   /\ res' = IF fail > 0 THEN Raise("IOError", "Write failed")
                             ELSE IF w.exc # ""
                             THEN Raise(w.exc, "writelines() argument must be an iterable of bytes")
                             ELSE Py_None
                   /\ out_content' = Written(out_content, out_pos, data)
                   /\ out_pos' = out_pos + Len(data)
                   /\ UNCHANGED <<self, cfg, in_content, in_pos, in_closed,
                                  out_closed, line_buf>>

\* The native stream is closed through another reference to it.
AliasCloseInput ==
  /\ op = "idle"
  /\ UNCHANGED hist
  /\ /\ self.input /\ ~in_closed
     /\ in_closed' = TRUE
     /\ run' = <<>>
     /\ op' = "alias_close_input" /\ arg' = NoArgs /\ res' = R0 /\ calls' = <<>>
     /\ UNCHANGED <<self, cfg, in_content, in_pos, out_content, out_pos,
                    out_closed, line_buf>>

AliasCloseOutput ==
  /\ op = "idle"
  /\ UNCHANGED hist
  /\ /\ self.output /\ ~out_closed
     /\ out_closed' = TRUE
     /\ run' = <<>>
     /\ op' = "alias_close_output" /\ arg' = NoArgs /\ res' = R0 /\ calls' = <<>>
     /\ UNCHANGED <<self, cfg, in_content, in_pos, in_closed, out_content,
                    out_pos, line_buf>>

\* The caller takes the result; the wrapper waits for the next call.  A
\* crashed process makes no further call.
Return ==
  /\ op # "idle"
  /\ res.kind # "crash"
  /\ op' = "idle"
  /\ arg' = NoArgs
  /\ res' = R0
  /\ calls' = <<>>
  /\ run' = <<>>
  /\ UNCHANGED <<self, cfg, in_content, native, hist>>

\* ------------------------------------------- read_until_eof, read by read
\* readall() enters read_until_eof: no native read issued, no chunk gathered.
read_until_eof_enter ==
  /\ op = "idle"
  /\ ~is_closed
  /\ is_readable
  /\ op' = "read_until_eof"
  /\ arg' = NoArgs
  /\ res' = R0
  /\ calls' = <<>>
  /\ run' = <<>>
  /\ UNCHANGED <<self, cfg, in_content, native, hist>>

\* The chunks gathered so far: the sizes in `run`, ending at the native
\* input's position.
Gathered == SplitBy(Drop(in_content, in_pos - Sum(run)), run)

\* One pass of the while loop: a native read of up to bufsize bytes that
\* fails (n < 0), finds the end of the stream (n = 0) or gives n bytes.  The
\* loop is left on the first two, and the chunks are copied after the
\* second.
read_until_eof_pass ==
  /\ op = "read_until_eof"
  /\ calls' = Append(calls, "g_input_stream_read")
  /\ UNCHANGED <<self, cfg, in_content, in_closed, out_content, out_pos,
                 out_closed, line_buf, arg, hist>>
  /\ \E n \in {-1} \cup (IF Rest = <<>> THEN {0}
                          ELSE 1..Min(InBufSize, Len(Rest))) :
       IF n < 0
       THEN /\ op' = "readall"
            /\ res' = Raise("IOError", "Read error")
            /\ UNCHANGED <<in_pos, run>>
       ELSE IF n = 0
       THEN /\ op' = "readall"
            /\ UNCHANGED <<in_pos, run>>
            /\ \E dies \in BOOLEAN :
                 \E fill \in (IF CopyDefined(Gathered, InBufSize)
                              THEN {Concat(Gathered)}
                              ELSE [1..Sum(run) -> Garbage]) :
                   LET c == CopyChunks(1, 0, fill, Gathered, InBufSize,
                                       Sum(run), fill)
                   IN  res' = IF c.neg \/ (c.over /\ dies) THEN Crash
                              ELSE PyBytes(c.dest)
       ELSE /\ op' = "read_until_eof"
            /\ res' = R0
            /\ in_pos' = in_pos + n
            /\ run' = Append(run, n)

\* ---------------------------------------------------- tp_init / tp_dealloc
\* What StreamWrapper_init accepts, and one object it does not.
InitKinds == {"input", "output", "io", "other"}

\* stream.__init__ (obj), also on an instance that was initialised before.
\* A stream passed in is a fresh one; the input of a wrapper re-initialised
\* with an output stream stays the stream it was and gets a new scanner.
tp_init ==
  /\ op = "idle"
  /\ \A f \in DOMAIN NoRefs :
       hist.refs[f] < MaxRefs /\ hist.refs[f] > 0 - MaxRefs
  /\ \E kind \in InitKinds, scanner_ok \in BOOLEAN :
       LET r == init_result(self, kind, scanner_ok)
           new_in == kind \in {"input", "io"}
           new_out == kind \in {"output", "io"}
       IN  /\ self' = init_self(self, kind, scanner_ok)
           /\ cfg' = [cfg EXCEPT !.kind = kind]
           /\ in_pos' = (IF new_in THEN 0 ELSE in_pos)
           /\ in_closed' = (IF new_in THEN FALSE ELSE in_closed)
           /\ out_content' = (IF new_out THEN <<>> ELSE out_content)
           /\ out_pos' = (IF new_out THEN 0 ELSE out_pos)
           /\ out_closed' = (IF new_out THEN FALSE ELSE out_closed)
           /\ line_buf' = (IF kind = "other" THEN line_buf ELSE <<>>)
           /\ op' = "__init__"
           /\ arg' = NoArgs
           /\ res' = r
           /\ calls' = <<>>
           /\ run' = <<>>
           /\ UNCHANGED in_content
           /\ hist' = [hist EXCEPT
                         !.refs = init_refs(@, self, kind, scanner_ok),
                         !.built = @ \/ r = Py_None]

\* StreamWrapper_dealloc: the last reference to the instance is dropped
\* while no call is running.  g_object_unref (NULL) does nothing.
StreamWrapper_dealloc ==
  /\ op = "idle"
  /\ op' = "tp_dealloc"
  /\ hist' = [hist EXCEPT !.refs =
       [input      |-> IF self.input THEN @.input - 1 ELSE @.input,
        data_input |-> IF self.input /\ self.data_input
                       THEN @.data_input - 1 ELSE @.data_input,
        output     |-> IF self.output THEN @.output - 1 ELSE @.output,
        io         |-> IF self.io THEN @.io - 1 ELSE @.io]]
  /\ UNCHANGED <<self, cfg, in_content, native, arg, res, calls, run>>

\* ---------------------------------------------------------------- the model
Kinds == {"input", "output", "io"}

SeekKinds == {"no", "cant", "yes"}

Cfg0 == [kind |-> "input", in_seek |-> "no", out_seek |-> "no",
         out_trunc |-> FALSE, in_fd |-> FALSE, out_fd |-> FALSE,
         tty |-> FALSE, in_bufsize |-> 0, out_bufsize |-> 0]

\* The native streams a wrapper is built over.  in_bufsize / out_bufsize is
\* the buffer size of a GBufferedInputStream / GBufferedOutputStream, 0 for
\* a stream of another type.  Two families per shape: every capability
\* profile over one content, and every content and buffer size over one
\* capability profile.
InputCapCfgs ==
  {[Cfg0 EXCEPT !.kind = "input", !.in_seek = s, !.in_fd = f, !.tty = f /\ y] :
     s \in SeekKinds, f \in BOOLEAN, y \in BOOLEAN}

InputDataCfgs ==
  {[Cfg0 EXCEPT !.kind = "input", !.in_seek = "yes", !.in_bufsize = b] :
     b \in 0..MaxBuf}

OutputCfgs ==
  {[Cfg0 EXCEPT !.kind = "output", !.out_seek = s, !.out_trunc = t,
                !.out_fd = f, !.tty = f /\ y] :
     s \in SeekKinds, t \in BOOLEAN, f \in BOOLEAN, y \in BOOLEAN}
  \cup
  {[Cfg0 EXCEPT !.kind = "output", !.out_seek = "yes", !.out_trunc = TRUE,
                !.out_bufsize = b] : b \in 0..MaxBuf}

IoCfgs ==
  {[Cfg0 EXCEPT !.kind = "io", !.in_seek = s1, !.out_seek = s2,
                !.out_trunc = TRUE, !.in_fd = f1, !.out_fd = f2] :
     s1 \in SeekKinds, s2 \in SeekKinds, f1 \in BOOLEAN, f2 \in BOOLEAN}

\* The state after StreamWrapper (stream) over a native stream of
\* configuration c holding `content`.
Constructed(c, content) ==
  /\ cfg = c
  /\ self = StreamWrapper_init(c.kind)
  /\ in_content = content
  /\ in_pos = 0
  /\ in_closed = FALSE
  /\ out_content = <<>>
  /\ out_pos = 0
  /\ out_closed = FALSE
  /\ line_buf = <<>>
  /\ op = "idle"
  /\ arg = NoArgs
  /\ res = R0
  /\ calls = <<>>
  /\ run = <<>>
  /\ hist = [closes |-> 0, stopped |-> FALSE,
             refs |-> init_refs(NoRefs, tp_new, c.kind, TRUE), built |-> TRUE]

\* Binary content: lines that hold a NUL byte.
NulContents == {<<NUL, LF>>, <<97, NUL, LF>>}

InitInput ==
  \/ \E c \in InputCapCfgs : Constructed(c, <<97, LF>>)
  \/ \E c \in InputDataCfgs, content \in SeqsUpTo(Byte, MaxLen) \cup NulContents :
       Constructed(c, content)

InitOutput == \E c \in OutputCfgs : Constructed(c, <<>>)

InitIo ==
  \E c \in IoCfgs : Constructed(c, <<97>>)

\* One wrapper of each shape, over seekable streams.
InitShapes ==
  \E k \in Kinds :
    Constructed([Cfg0 EXCEPT !.kind = k, !.in_seek = "yes", !.out_seek = "yes",
                             !.out_trunc = TRUE], <<97, LF>>)

\* An input stream holding three lines of three bytes, ab\n cd\n ef\n.
ThreeLines == <<97, 98, LF, 99, 100, LF, 101, 102, LF>>

InitLines == \E c \in InputDataCfgs : Constructed(c, ThreeLines)

Init == InitInput \/ InitOutput \/ InitIo

Next ==
  \/ StreamWrapper_get_closed
  \/ StreamWrapper_close_impl
  \/ StreamWrapper_readable_impl
  \/ StreamWrapper_writable_impl
  \/ StreamWrapper_read_impl
  \/ StreamWrapper_readall_impl
  \/ StreamWrapper_readinto_impl
  \/ StreamWrapper_readline_impl
  \/ StreamWrapper_readlines_impl
  \/ StreamWrapper_iternext
  \/ StreamWrapper_write_impl
  \/ StreamWrapper_writelines_impl
  \/ StreamWrapper_enter_impl
  \/ StreamWrapper_exit_impl
  \/ StreamWrapper_iter
  \/ StreamWrapper_flush_impl
  \/ StreamWrapper_seekable_impl
  \/ StreamWrapper_tell_impl
  \/ StreamWrapper_seek_impl
  \/ StreamWrapper_truncate_impl
  \/ StreamWrapper_fileno_impl
  \/ StreamWrapper_isatty_impl
  \/ AliasCloseInput
  \/ AliasCloseOutput
  \/ Return

Spec == Init /\ [][Next]_vars

SpecIo == InitIo /\ [][Next]_vars

\* The methods that read lines, over the three-line stream.
NextLines ==
  \/ StreamWrapper_readline_impl
  \/ StreamWrapper_readlines_impl
  \/ StreamWrapper_iternext
  \/ StreamWrapper_close_impl
  \/ Return

SpecLines == InitLines /\ [][NextLines]_vars

\* A new instance before any constructor call, over streams of one shape.
InitLife ==
  /\ \E c \in InputCapCfgs : cfg = c
  /\ self = tp_new
  /\ in_content = <<97, LF>>
  /\ in_pos = 0
  /\ in_closed = FALSE
  /\ out_content = <<>>
  /\ out_pos = 0
  /\ out_closed = FALSE
  /\ line_buf = <<>>
  /\ op = "idle"
  /\ arg = NoArgs
  /\ res = R0
  /\ calls = <<>>
  /\ run = <<>>
  /\ hist = [closes |-> 0, stopped |-> FALSE, refs |-> NoRefs,
             built |-> FALSE]

\* The life of an instance: constructor calls, the calls that close it or
\* ask for its state, and its destruction, after which nothing runs.
NextLife ==
  \/ tp_init
  \/ StreamWrapper_dealloc
  \/ StreamWrapper_get_closed
  \/ StreamWrapper_close_impl
  \/ StreamWrapper_readable_impl
  \/ StreamWrapper_writable_impl
  \/ StreamWrapper_enter_impl
  \/ StreamWrapper_exit_impl
  \/ (op # "tp_dealloc" /\ Return)

SpecLife == InitLife /\ [][NextLife]_vars

\* readall() taken one native read at a time.  The loop runs on without
\* waiting for anything, so a pass that can be made is made; the caller
\* gets the result when the loop is over.
NextEof ==
  \/ read_until_eof_enter
  \/ read_until_eof_pass
  \/ (op # "read_until_eof" /\ Return)

SpecEof == InitInput /\ [][NextEof]_vars /\ WF_vars(read_until_eof_pass)

SpecShapes == InitShapes /\ [][Next]_vars

SpecOneSided == (InitInput \/ InitOutput) /\ [][Next]_vars


\* ------------------------------------------------------------ what is called
\* The methods and attributes of the type (StreamWrapper_methods,
\* StreamWrapper_getseters and the iterator slots).
Methods ==
  {"closed", "close", "readable", "writable", "seekable", "read", "readall",
   "readinto", "readline", "readlines", "__next__", "__iter__", "write",
   "writelines", "flush", "seek", "tell", "truncate", "fileno", "isatty",
   "__enter__", "__exit__"}

ReadOps == {"read", "readall", "readinto", "readline", "readlines", "__next__"}

WriteOps == {"write", "writelines"}

\* The capability a method needs is missing from this wrapper.
Lacks(m) ==
  \/ m \in ReadOps /\ ~is_readable
  \/ m \in WriteOps /\ ~is_writable
  \/ m \in {"seek", "tell", "truncate"} /\ ~is_seekable
  \/ m = "fileno" /\ ~is_fd_based

\* The value of closed that follows from the sides the wrapper holds, each
\* asked on its own: with both sides, closed only when both are.
BothSidesClosed ==
  IF self.input /\ self.output THEN in_closed /\ out_closed
  ELSE IF self.input THEN in_closed
  ELSE out_closed

\* ------------------------------------------------------------------ claims
\* C1: once close() has returned without error, every later call of a method
\* other than close() and the closed attribute fails with the closed-stream
\* error, issues no native call and leaves the native streams as they were.
\* (Calls whose arguments parse; __exit__, which is close() by another name,
\* is set aside.)
C1_FailsAfterClose ==
  [][(hist.closes > 0 /\ op' \in Methods \ {"close", "closed", "__exit__"}
        /\ arg'.ok)
       => (res' = err_closed /\ calls' = <<>> /\ UNCHANGED native)]_vars

\* C2: close() is idempotent: on a wrapper that reports closed, close()
\* returns None, raises nothing, issues no native close call and leaves the
\* wrapper closed, so that any number of repeated calls do the same.
C2_CloseIdempotent ==
  [][(is_closed /\ op' = "close")
       => (res' = Py_None /\ calls' = <<>> /\ UNCHANGED native /\ is_closed')]_vars

\* close() has returned None a second time, with no native call.
C2_Witness ==
  op = "close" /\ hist.closes = 2 /\ res = Py_None /\ calls = <<>>

\* C3: when close() returns without error, every native stream the wrapper
\* holds is closed; a duplex container is closed as a unit, otherwise the
\* input side is closed before the output side.
C3_CloseClosesAll ==
  (op = "close" /\ res = Py_None) =>
    /\ self.input => in_closed
    /\ self.output => out_closed
    /\ calls \in (IF self.io THEN {<<>>, <<"g_io_stream_close">>}
                  ELSE {<<>>, <<"g_input_stream_close">>,
                        <<"g_output_stream_close">>,
                        <<"g_input_stream_close", "g_output_stream_close">>})

\* C4: with both sides present, closed is true only when both sides report
\* closed; with one side present it is that side's state.  It is computed from
\* the native streams on each call.
C4_ClosedWhenBothClosed ==
  op = "closed" => res = PyBool(BothSidesClosed)

\* C5: on an open output-only wrapper readable() is false and read, readall,
\* readinto, readline, readlines and iteration raise the unsupported-operation
\* error; on an open input-only wrapper writable() is false and write and
\* writelines raise it.  No native call is made and the native streams keep
\* their content and position.  (Calls whose arguments parse.)
C5_MissingSide ==
  [][/\ (~is_closed /\ ~self.input /\ op' = "readable") => res' = PyBool(FALSE)
     /\ (~is_closed /\ ~self.input /\ op' \in ReadOps /\ arg'.ok)
          => (res' = err_not_readable /\ calls' = <<>>
              /\ UNCHANGED <<in_content, native>>)
     /\ (~is_closed /\ ~self.output /\ op' = "writable") => res' = PyBool(FALSE)
     /\ (~is_closed /\ ~self.output /\ op' \in WriteOps /\ arg'.ok)
          => (res' = err_not_writable /\ calls' = <<>>
              /\ UNCHANGED <<in_content, native>>)]_vars

\* readinto on an open output-only wrapper has been refused.
C5_Witness ==
  /\ op = "readinto" /\ ~self.input /\ ~out_closed
  /\ res = err_not_readable /\ calls = <<>>

\* C6: every method checks closed first and its capability second, before
\* anything else: on a wrapper that is closed and lacks the capability the
\* method needs, the error is the closed-stream error, whatever the arguments.
C6_ClosedCheckFirst ==
  [][(is_closed /\ Lacks(op')) => res' = err_closed]_vars

\* C7: on a closed wrapper readable(), writable() and seekable() raise the
\* closed-stream error.
C7_QueriesFailWhenClosed ==
  (is_closed /\ op \in {"readable", "writable", "seekable"}) => res = err_closed

\* C8: the closed-stream error is of another kind than the errors raised for
\* a missing capability.
C8_DistinctErrorKinds ==
  (op \in Methods /\ res = err_closed)
    => res.exc \notin {err_not_readable.exc, err_not_writable.exc,
                       err_not_seekable.exc}

\* C9: read(n) with n > 0 on an open readable wrapper, when no native read
\* fails, returns exactly the next min(n, remaining) bytes of the native
\* stream, however the native layer cuts them into short reads, and advances
\* the position by the number of bytes returned.
C9_ReadN ==
  [][(op' = "read" /\ arg'.ok /\ arg'.given /\ arg'.n > 0 /\ ~is_closed
        /\ is_readable /\ res'.kind # "exc")
       => LET k == Min(arg'.n, Len(Rest))
          IN  /\ res' = PyBytes(SubSeq(in_content, in_pos + 1, in_pos + k))
              /\ in_pos' = in_pos + k]_vars

\* read(n) was answered by several short native reads and by EOF before n
\* bytes.
C9_Witness ==
  /\ op = "read" /\ arg.given /\ arg.n > 0 /\ res.kind = "bytes"
  /\ Len(run) >= 2 /\ Len(res.data) < arg.n /\ Len(res.data) = Sum(run)

\* C10: read(), read(-1) and readall() on an open readable wrapper, when no
\* native read fails, return exactly the remaining bytes in order, however
\* the native layer cuts them into chunks, and leave the stream at its end.
C10_ReadToEnd ==
  [][(op' \in {"read", "readall"} /\ arg'.ok /\ (arg'.given => arg'.n < 0)
        /\ ~is_closed /\ is_readable /\ res'.kind # "exc")
       => (res' = PyBytes(Rest) /\ in_pos' = Len(in_content))]_vars

\* C11: write(b) on an open writable wrapper either raises an I/O failure or
\* returns len(b) with all of b in the native stream at the position the
\* stream had, in order and once, whatever the partial native writes; it
\* never returns less than len(b).  write(b"") returns 0 with no native write.
C11_WriteAll ==
  [][(op' = "write" /\ arg'.ok /\ ~is_closed /\ is_writable)
       => LET b == arg'.b
          IN  \/ res'.kind = "exc" /\ res'.exc = "IOError" /\ Len(b) > 0
              \/ /\ res' = PyLong(Len(b))
                 /\ out_pos' = out_pos + Len(b)
                 /\ SubSeq(out_content', out_pos + 1, out_pos + Len(b)) = b
                 /\ Take(out_content', Min(out_pos, Len(out_content)))
                      = Take(out_content, Min(out_pos, Len(out_content)))
                 /\ Drop(out_content', out_pos + Len(b))
                      = Drop(out_content, out_pos + Len(b))
                 /\ Len(b) = 0 => (calls' = <<>> /\ UNCHANGED native)]_vars

\* write(b) went through after several partial native writes.
C11_Witness ==
  /\ op = "write" /\ Len(run) >= 2 /\ res = PyLong(Len(arg.b))
  /\ Sum(run) = Len(arg.b)

\* The bytes the caller has not been given yet: those the line scanner holds
\* and those still in the native stream.
Unread == line_buf \o Rest

\* The next line of u with its delimiter (the rest of u when it has none).
NextLine(u) == IF HasLF(u) THEN Take(u, FirstLF(u)) ELSE u

\* C12: readline(limit) with limit > 0, when no native read fails, returns the
\* first min(limit, length) bytes of the next line (delimiter counted), never
\* more than limit bytes, and consumes only what it returns: the rest of the
\* line stays unread.  At EOF it returns the empty byte sequence.
C12_ReadlineLimit ==
  [][(op' = "readline" /\ arg'.ok /\ arg'.given /\ arg'.n > 0 /\ ~is_closed
        /\ is_readable /\ res'.kind # "exc")
       => LET line == NextLine(Unread)
              k == Min(arg'.n, Len(line))
          IN  /\ res' = PyBytes(Take(line, k))
              /\ Unread' = Drop(Unread, k)]_vars

\* What iteration makes of the result r of readline(): the end of the
\* sequence at the first empty result, the result itself otherwise.
FromReadline(r) == IF r = PyBytes(<<>>) THEN Raise("StopIteration", "") ELSE r

\* C13: each advance of the iterator gives what readline() without a limit
\* gives from the same state and the same native answers, an empty result of
\* readline() being the end of the sequence; so iteration yields the results
\* of repeated readline() calls up to the first empty one.
C13_IterationIsReadline ==
  [][(op' = "__next__" /\ ~is_closed /\ is_readable)
       => \E o \in read_line(line_buf, in_pos) :
            /\ line_buf' = o.buf
            /\ in_pos' = o.pos
            /\ res' = FromReadline(readline_result(o, -1))]_vars

\* C14: once an advance has signalled the end of the sequence, every later
\* advance on the open wrapper (no seek() in between) signals it again, or
\* fails on a native error; it never yields another line.
C14_ExhaustedStaysExhausted ==
  [][(hist.stopped /\ op' = "__next__" /\ ~is_closed /\ is_readable)
       => (res'.kind = "exc" /\ res'.exc \in {"StopIteration", "IOError"})]_vars

\* The lines of u, each with its delimiter when it has one.
RECURSIVE LinesOf(_)
LinesOf(u) ==
  IF u = <<>> THEN <<>>
  ELSE <<NextLine(u)>> \o LinesOf(Drop(u, Len(NextLine(u))))

\* A line with a trailing delimiter.
WithLF(l) == IF l # <<>> /\ l[Len(l)] = LF THEN l ELSE l \o <<LF>>

\* How many of the lines ls are returned for a hint: up to and with the
\* first at which the running total meets the hint, all of them when the hint
\* is not positive.
RECURSIVE CountToHint(_, _, _)
CountToHint(ls, hint, total) ==
  IF ls = <<>> THEN 0
  ELSE IF hint > 0 /\ total + Len(WithLF(ls[1])) >= hint THEN 1
  ELSE 1 + CountToHint(Tail(ls), hint, total + Len(WithLF(ls[1])))

\* C15: readlines(hint), when no native read fails, returns the unread lines
\* in order, each with a trailing delimiter, up to and with the first line at
\* which the running total of bytes meets or exceeds hint (all lines when
\* hint is zero, negative or unset), and consumes exactly the lines returned.
C15_ReadlinesHint ==
  [][(op' = "readlines" /\ arg'.ok /\ ~is_closed /\ is_readable
        /\ res'.kind # "exc")
       => LET ls == LinesOf(Unread)
              hint == IF arg'.given THEN arg'.n ELSE 0
              k == CountToHint(ls, hint, 0)
          IN  /\ res' = PyList([i \in 1..k |-> WithLF(ls[i])])
              /\ Unread' = Drop(Unread, Len(Concat(Take(ls, k))))]_vars

\* C16: readlines(3) over the unread content ab\n cd\n ef\n, when no native
\* read fails, returns the two lines [ab\n, cd\n].
C16_ReadlinesHintThree ==
  [][(Unread = ThreeLines /\ op' = "readlines" /\ arg' = IntArg(3)
        /\ ~is_closed /\ res'.kind # "exc")
       => res' = PyList(<<<<97, 98, LF>>, <<99, 100, LF>>>>)]_vars

\* C17: writelines(items) with every item a bytes object, when no native
\* write fails, puts exactly the concatenation of the items, in order and
\* with nothing inserted, lost or repeated, into the native stream at its
\* position, and no buffer handed to the native stream is longer than the
\* buffer size.
C17_WritelinesConcat ==
  [][(op' = "writelines" /\ arg'.ok /\ arg'.n = 0 /\ ~is_closed /\ is_writable
        /\ res'.kind # "exc")
       => LET data == Concat(arg'.items)
          IN  /\ res' = Py_None
              /\ out_pos' = out_pos + Len(data)
              /\ SubSeq(out_content', out_pos + 1, out_pos + Len(data)) = data
              /\ Take(out_content', Min(out_pos, Len(out_content)))
                   = Take(out_content, Min(out_pos, Len(out_content)))
              /\ Drop(out_content', out_pos + Len(data))
                   = Drop(out_content, out_pos + Len(data))
              /\ Sum(run') = Len(data)
              /\ \A i \in 1..Len(run') : run'[i] <= OutBufSize]_vars

\* writelines has written an item longer than the buffer, in several
\* buffers.
C17_Witness ==
  /\ op = "writelines" /\ res = Py_None /\ arg.n = 0 /\ Len(run) >= 2
  /\ \E i \in 1..Len(arg.items) : Len(arg.items[i]) > OutBufSize
  /\ out_content = Concat(arg.items)

\* Where seek(offset, whence) puts a side that is at pos of len bytes.
SeekBase(pos, len, whence) ==
  CASE whence = SEEK_SET -> 0
    [] whence = SEEK_CUR -> pos
    [] OTHER -> len

\* C18: on an open seekable wrapper seek(offset, whence) with a valid whence
\* either fails on a native error or moves every side the wrapper holds to
\* start, current position or end plus offset and returns the position that
\* tell() gives right afterwards; with an invalid whence it raises ValueError
\* and moves no side.
C18_SeekThenTell ==
  [][(op' = "seek" /\ arg'.ok /\ ~is_closed /\ is_seekable)
       => LET offset == arg'.n
              whence == arg'.b[1]
          IN  IF whence \notin {SEEK_SET, SEEK_CUR, SEEK_END}
              THEN res' = Raise("ValueError", "Invalid whence value")
                   /\ calls' = <<>> /\ UNCHANGED native
              ELSE \/ res'.kind = "exc" /\ res'.exc = "IOError"
                   \/ /\ res' = PyLong(tell(in_pos', out_pos'))
                      /\ self.input =>
                           in_pos' = SeekBase(in_pos, Len(in_content), whence) + offset
                      /\ self.output =>
                           out_pos' = SeekBase(out_pos, Len(out_content), whence) + offset
                      /\ res'.n = IF self.output THEN out_pos' ELSE in_pos']_vars

\* Exactly one side of a duplex wrapper supports seeking.
OneSideSeekable ==
  /\ self.input /\ self.output
  /\ (cfg.in_seek = "yes") # (cfg.out_seek = "yes")

\* C19: on an open duplex wrapper with exactly one seekable side seekable()
\* is true, tell() and seek() issue no native seek or tell on the other side,
\* seek() leaves that side where it was, and the position returned is the
\* seekable side's.
C19_SeekableSideOnly ==
  [][(OneSideSeekable /\ ~is_closed /\ op' \in {"seekable", "tell", "seek"}
        /\ arg'.ok)
       => LET in_only == cfg.in_seek = "yes"
              other == IF in_only THEN "(output)" ELSE "(input)"
          IN  /\ op' = "seekable" => res' = PyBool(TRUE)
              /\ \A i \in 1..Len(calls') :
                   calls'[i] \notin {"g_seekable_seek" \o other,
                                     "g_seekable_tell" \o other}
              /\ IF in_only THEN out_pos' = out_pos ELSE in_pos' = in_pos
              /\ res'.kind = "int"
                   => res'.n = IF in_only THEN in_pos' ELSE out_pos']_vars

\* The native calls truncate() can make on the output side.
OutputTruncateCalls ==
  {"g_seekable_can_truncate(output)", "g_seekable_tell(output)",
   "g_seekable_truncate(output)"}

\* C20: truncate on an open wrapper without truncate capability (no output
\* side, or a seekable output stream that cannot truncate) raises the
\* unsupported-operation error and changes nothing, and with no output side
\* no native call is made on it.
C20_TruncateUnsupported ==
  [][(op' = "truncate" /\ arg'.ok /\ ~is_closed
        /\ (~self.output \/ (cfg.out_seek = "yes" /\ ~cfg.out_trunc)))
       => /\ res'.kind = "exc" /\ res'.exc = "UnsupportedOperation"
          /\ UNCHANGED native
          /\ ~self.output
               => \A i \in 1..Len(calls') : calls'[i] \notin OutputTruncateCalls]_vars

BackedFds ==
  (IF self.input /\ cfg.in_fd THEN {InFd} ELSE {})
  \cup (IF self.output /\ cfg.out_fd THEN {OutFd} ELSE {})

\* C22: fileno() on an open wrapper returns the descriptor of a descriptor
\* based side when there is one and raises the unsupported-operation error
\* otherwise, and never asks a side that is not descriptor based for its
\* descriptor.
C22_FilenoWhenBacked ==
  [][(op' = "fileno" /\ ~is_closed)
       => /\ IF BackedFds # {}
             THEN res'.kind = "int" /\ res'.n \in BackedFds
             ELSE res' = err_unsupported("fileno")
          /\ ~(self.input /\ cfg.in_fd)
               => \A i \in 1..Len(calls') :
                    calls'[i] # "g_file_descriptor_based_get_fd(input)"
          /\ ~(self.output /\ cfg.out_fd)
               => \A i \in 1..Len(calls') :
                    calls'[i] # "g_file_descriptor_based_get_fd(output)"]_vars

\* C23: flush() on an open wrapper without an output side returns None with
\* no native call; with an output side it makes one native flush and returns
\* None when that succeeds or fails with no error set, and raises IOError
\* only when it fails with an error set.  The native streams' closed state,
\* content and positions are unchanged.
C23_FlushOutcome ==
  [][(op' = "flush" /\ ~is_closed)
       => /\ UNCHANGED native
          /\ IF ~self.output THEN res' = Py_None /\ calls' = <<>>
             ELSE \E o \in FlushOutcomes :
                    /\ calls' = <<FlushCall(o)>>
                    /\ res' = IF o = "fail" THEN Raise("IOError", "flush")
                              ELSE Py_None]_vars

\* A native flush failed with no error set and flush() returned None.
C23_Witness ==
  op = "flush" /\ calls = <<FlushCall("fail_silent")>> /\ res = Py_None

Shapes == {StreamWrapper_init(k) : k \in Kinds}

\* C25: once a constructor call has succeeded the wrapper holds exactly one
\* of the three shapes (input and scanner; output; input, scanner, output and
\* duplex container), and no later step, a second constructor call on the
\* same instance included, changes it.  A constructor call with an object
\* that is no GIO stream raises TypeError and assigns no pointer.
C25_ShapeFixed ==
  [][ /\ (hist'.built => self' \in Shapes)
      /\ (hist.built => self' = self)
      /\ (op' = "__init__" /\ cfg'.kind = "other" =>
            /\ res' = Raise("TypeError", "expected a GIO stream object")
            /\ self' = self) ]_vars

\* C26: no reference is given back more often than it was taken, close()
\* and __exit__ give none back, and once the instance is destroyed every
\* reference taken for input, scanner, output and duplex container has been
\* given back.
C26_ReleasedOnce ==
  [][ /\ \A f \in DOMAIN NoRefs : hist'.refs[f] >= 0
      /\ (op' \in {"close", "__exit__"} => hist'.refs = hist.refs)
      /\ (op' = "tp_dealloc" => hist'.refs = NoRefs) ]_vars

\* C27: a readline() or __next__ that returns a line on an open readable
\* wrapper leaves nothing in the line scanner's buffer: the native input
\* stands right after the line returned, so the bytes a following read(n),
\* read() or readinto() gets from the native input are the bytes that follow
\* that line.
C27_NoLookahead ==
  [][(op' \in {"readline", "__next__"} /\ ~is_closed /\ is_readable
        /\ res'.kind = "bytes" /\ calls' # <<>>)
       => line_buf' = <<>>]_vars

\* C28: after a seek() that succeeds on an open readable wrapper the bytes
\* the line scanner hands out next (what it has buffered, then the native
\* input from its position on) are the stream's bytes from the position
\* sought: nothing buffered before the seek is left to be returned.
C28_SeekDropsLookahead ==
  [][(op' = "seek" /\ ~is_closed /\ is_readable /\ res'.kind = "int")
       => line_buf' \o Drop(in_content, in_pos') = Drop(in_content, in_pos')
    ]_vars

\* C29: line reads without a limit return the stream's bytes as they are:
\* readline(), when no native read fails, returns exactly the next unread
\* line (delimiter included only where the stream has one, the empty result
\* only when nothing is unread) and consumes it, so the results joined up to
\* the first empty one are the unread bytes; readlines() returns a list
\* whose lines joined are the unread bytes.
C29_ContentPreserved ==
  [][ /\ (op' = "readline" /\ arg'.ok /\ ~is_closed /\ is_readable
            /\ (~arg'.given \/ arg'.n < 0) /\ res'.kind # "exc")
          => /\ res' = PyBytes(NextLine(Unread))
             /\ Unread' = Drop(Unread, Len(NextLine(Unread)))
      /\ (op' = "readlines" /\ arg'.ok /\ ~is_closed /\ is_readable
            /\ (~arg'.given \/ arg'.n <= 0) /\ res'.kind # "exc")
          => /\ res'.kind = "list"
             /\ Concat(res'.lines) = Unread ]_vars

\* C30: read-to-EOF leaves its loop on the first native read that returns
\* zero or a negative count and issues no native read after it: on zero the
\* call returns the bytes gathered by the reads before, on a negative count
\* it raises an I/O failure and returns no data; every read before that one
\* returned at least one byte; and a read-to-EOF that has begun always ends.
C30_ReadToEofStops ==
  /\ [][(op = "read_until_eof" /\ calls' # calls)
          => /\ calls' = Append(calls, "g_input_stream_read")
             /\ IF in_pos' > in_pos
                THEN op' = "read_until_eof" /\ run' = Append(run, in_pos' - in_pos)
                ELSE /\ op' = "readall"
                     /\ run' = run
                     /\ \/ res' = Raise("IOError", "Read error")
                        \/ res' = PyBytes(Concat(Gathered))]_vars
  /\ [][(op = "readall") => calls' \in {calls, <<>>}]_vars
  /\ (op = "read_until_eof") ~> (op = "readall")

=============================================================================
